---- MODULE Spec2Model ----
(***************************************************************************)
(* The aws_iid node resolver (pkg/server/plugin/noderesolver/aws/iid.go):  *)
(* the plugin's configuration and lazily filled per-region client cache    *)
(* behind one RWMutex, and the resolution of a batch of agent ids into     *)
(* sorted, deduplicated selectors.                                         *)
(*                                                                         *)
(* Go strings that are parsed, formatted or sorted are sequences of byte   *)
(* values, so that formatting and ordering are computed, not assumed.      *)
(* A Go pointer that may be nil is a set with at most one element.         *)
(* Error values and credential strings are TLA+ strings ("" is no error).  *)
(***************************************************************************)
EXTENDS Integers, Sequences, FiniteSets, TLC

(***************************************************************************)
(* Bounds of the model.                                                    *)
(***************************************************************************)
\* the number of plugin calls (Configure, Resolve) started in a behaviour
MaxCalls == 3
\* the longest batch (BaseSpiffeIdList) a Resolve call is given
MaxBatch == 2
\* the most path segments after the resolver's name in a generated identity
MaxSegments == 4

(***************************************************************************)
(* Strings.                                                                *)
(***************************************************************************)
\* the nil pointer, and the pointer to a value
NilPtr == {}
Ptr(v) == {v}
Deref(p) == CHOOSE v \in p : TRUE

\* aws.StringValue: the pointed-to string, "" for the nil pointer
StringValue(p) == IF p = NilPtr THEN <<>> ELSE Deref(p)

HasPrefix(s, pre) ==
    /\ Len(s) >= Len(pre)
    /\ SubSeq(s, 1, Len(pre)) = pre

\* the byte order of Go's string comparison (sort.Strings uses s[i] < s[j])
RECURSIVE StrLess(_, _)
StrLess(a, b) ==
    IF b = <<>> THEN FALSE
    ELSE IF a = <<>> THEN TRUE
    ELSE IF Head(a) # Head(b) THEN Head(a) < Head(b)
    ELSE StrLess(Tail(a), Tail(b))

\* s cut at every occurrence of the byte c
RECURSIVE SplitOn(_, _)
SplitOn(s, c) ==
    IF \A i \in 1..Len(s) : s[i] # c THEN <<s>>
    ELSE LET k == CHOOSE i \in 1..Len(s) :
                     s[i] = c /\ \A h \in 1..(i - 1) : s[h] # c
         IN  <<SubSeq(s, 1, k - 1)>> \o SplitOn(SubSeq(s, k + 1, Len(s)), c)

Colon == <<58>>

\* pluginName = "aws_iid", the Type of every selector
pluginName == "aws_iid"

\* the class prefix of iidError ("aws-iid")
iidError(msg) == "aws-iid: " \o msg

(***************************************************************************)
(* parseAgentID.                                                           *)
(***************************************************************************)
SpiffeScheme == <<115,112,105,102,102,101,58,47,47>>             \* spiffe://
AgentPrefix == <<47,115,112,105,114,101,47,97,103,101,110,116,47>>  \* /spire/agent/
\* /spire/agent/aws_iid/ , the fixed part of reAgentIDPath
AgentIDPathPrefix ==
    <<47,115,112,105,114,101,47,97,103,101,110,116,47,97,119,115,95,105,105,100,47>>

\* idutil.ParseSpiffeID(id, AllowAnyTrustDomainAgent()): the URL's path when
\* the id is spiffe://<trust domain>/spire/agent/<something>, else an error.
ParseSpiffeID(id) ==
    IF ~HasPrefix(id, SpiffeScheme) THEN [ok |-> FALSE, Path |-> <<>>]
    ELSE LET rest == SubSeq(id, Len(SpiffeScheme) + 1, Len(id))
             parts == SplitOn(rest, 47)
             td == parts[1]
             path == SubSeq(rest, Len(td) + 1, Len(rest))
         IN  IF td # <<>> /\ HasPrefix(path, AgentPrefix)
                /\ Len(path) > Len(AgentPrefix)
             THEN [ok |-> TRUE, Path |-> path]
             ELSE [ok |-> FALSE, Path |-> <<>>]

\* a pattern that takes the first three segments and lets more follow
AtLeastThreeSegments(path) ==
    IF ~HasPrefix(path, AgentIDPathPrefix) THEN <<>>
    ELSE LET segs == SplitOn(SubSeq(path, Len(AgentIDPathPrefix) + 1, Len(path)), 47)
         IN  IF Len(segs) >= 3 /\ \A i \in 1..3 : segs[i] # <<>>
             THEN SubSeq(segs, 1, 3)
             ELSE <<>>

\* reAgentIDPath.FindStringSubmatch(path):
\* ^/spire/agent/aws_iid/([^/]+)/([^/]+)/([^/]+)$ ; <<>> when there is no match
reAgentIDPath(path) ==
    IF ~HasPrefix(path, AgentIDPathPrefix) THEN <<>>
    ELSE LET segs == SplitOn(SubSeq(path, Len(AgentIDPathPrefix) + 1, Len(path)), 47)
         IN  IF Len(segs) = 3 /\ \A i \in 1..3 : segs[i] # <<>>
             THEN segs
             ELSE <<>>

parseAgentID(spiffeID) ==
    LET u == ParseSpiffeID(spiffeID)
    IN  IF ~u.ok
        THEN [err |-> "unable to parse agent id", accountID |-> <<>>,
              region |-> <<>>, instanceId |-> <<>>]
        ELSE LET m == reAgentIDPath(u.Path)
             IN  IF m = <<>>
                 THEN [err |-> "malformed agent id", accountID |-> <<>>,
                       region |-> <<>>, instanceId |-> <<>>]
                 ELSE [err |-> "", accountID |-> m[1],
                       region |-> m[2], instanceId |-> m[3]]

(***************************************************************************)
(* The selector values of an instance.                                     *)
(***************************************************************************)
TagPrefix == <<116,97,103,58>>                    \* tag:
SgIdPrefix == <<115,103,58,105,100,58>>           \* sg:id:
SgNamePrefix == <<115,103,58,110,97,109,101,58>>  \* sg:name:
IamRolePrefix == <<105,97,109,114,111,108,101,58>>  \* iamrole:

\* fmt.Sprintf("tag:%s:%s", key, value) for every tag, in order
resolveTags(tags) ==
    [i \in 1..Len(tags) |->
        TagPrefix \o StringValue(tags[i].Key) \o Colon \o StringValue(tags[i].Value)]

\* security groups giving their ids only
RECURSIVE GroupIdsOnly(_)
GroupIdsOnly(sgs) ==
    IF sgs = <<>> THEN <<>>
    ELSE << SgIdPrefix \o StringValue(Head(sgs).GroupId) >> \o GroupIdsOnly(Tail(sgs))

\* sg:id:<id> then sg:name:<name> for every group, in order
RECURSIVE resolveSecurityGroups(_)
resolveSecurityGroups(sgs) ==
    IF sgs = <<>> THEN <<>>
    ELSE << SgIdPrefix \o StringValue(Head(sgs).GroupId),
            SgNamePrefix \o StringValue(Head(sgs).GroupName) >>
         \o resolveSecurityGroups(Tail(sgs))

\* iamrole:<arn> for every role whose Arn is not nil, in order
RECURSIVE resolveInstanceProfile(_)
resolveInstanceProfile(roles) ==
    IF roles = <<>> THEN <<>>
    ELSE (IF Head(roles).Arn # NilPtr
          THEN << IamRolePrefix \o StringValue(Head(roles).Arn) >>
          ELSE <<>>)
         \o resolveInstanceProfile(Tail(roles))

\* addSelectors: selectorSet[value] = true for every value
addSelectors(selectorSet, values) ==
    selectorSet \cup {values[i] : i \in 1..Len(values)}

\* for value := range selectorSet { values = append(values, value) }:
\* the keys of the map in some order
RECURSIVE MapKeys(_)
MapKeys(set) ==
    IF set = {} THEN <<>>
    ELSE LET v == CHOOSE x \in set : TRUE
         IN  <<v>> \o MapKeys(set \ {v})

\* sort.Strings
RECURSIVE Insert(_, _)
Insert(sorted, v) ==
    IF sorted = <<>> THEN <<v>>
    ELSE IF StrLess(v, Head(sorted)) THEN <<v>> \o sorted
    ELSE <<Head(sorted)>> \o Insert(Tail(sorted), v)

\* the values left in the order the map gave them
Unsorted(values) == values

RECURSIVE SortStrings(_)
SortStrings(values) ==
    IF values = <<>> THEN <<>>
    ELSE Insert(SortStrings(Tail(values)), Head(values))

\* the tail of resolveSpiffeID: sort and dedup selectors, wrap each value
MakeSelectors(selectorSet) ==
    LET values == SortStrings(MapKeys(selectorSet))
    IN  [Entries |-> [i \in 1..Len(values) |->
                        [Type |-> pluginName, Value |-> values[i]]]]

\* for _, reservation := range resp.Reservations
\*   for _, instance := range reservation.Instances: the instances in order
RECURSIVE Instances(_)
Instances(reservations) ==
    IF reservations = <<>> THEN <<>>
    ELSE Head(reservations) \o Instances(Tail(reservations))

(***************************************************************************)
(* Identities, configurations and the inventory's answers the model draws  *)
(* its inputs from.                                                        *)
(***************************************************************************)
\* spiffe://d/spire/agent/aws_iid/a/r1/i1
IdR1 ==
    <<115,112,105,102,102,101,58,47,47,100,47,115,112,105,114,101,47,97,103,101,
      110,116,47,97,119,115,95,105,105,100,47,97,47,114,49,47,105,49>>
\* spiffe://d/spire/agent/aws_iid/a/r2/i2
IdR2 ==
    <<115,112,105,102,102,101,58,47,47,100,47,115,112,105,114,101,47,97,103,101,
      110,116,47,97,119,115,95,105,105,100,47,97,47,114,50,47,105,50>>
\* spiffe://d/spire/agent/aws_iid/a/r1 : an agent id of the wrong shape
IdMalformed ==
    <<115,112,105,102,102,101,58,47,47,100,47,115,112,105,114,101,47,97,103,101,
      110,116,47,97,119,115,95,105,105,100,47,97,47,114,49>>
\* http://d/spire/agent/aws_iid/a/r1/i1 : not a SPIFFE ID
IdNotSpiffe ==
    <<104,116,116,112,58,47,47,100,47,115,112,105,114,101,47,97,103,101,110,116,
      47,97,119,115,95,105,105,100,47,97,47,114,49,47,105,49>>

\* every sequence over S of length at most n
SeqsUpTo(S, n) == UNION {[1..k -> S] : k \in 0..n}

\* the batches of concurrent callers name one instance each, once or more
ConcurrentBatches == SeqsUpTo({IdR1}, MaxBatch) \cup SeqsUpTo({IdR2}, MaxBatch)
SequentialBatches == SeqsUpTo({IdR1, IdR2, IdMalformed, IdNotSpiffe}, MaxBatch)

Tag(k, v) == [Key |-> Ptr(k), Value |-> Ptr(v)]
Group(id, name) == [GroupId |-> Ptr(id), GroupName |-> Ptr(name)]
Profile(arn) == Ptr([Arn |-> Ptr(arn)])

TagNameWeb1 == Tag(<<78,97,109,101>>, <<119,101,98,49>>)        \* Name=web1
TagEnvDb == Tag(<<101,110,118>>, <<100,98>>)                    \* env=db
GroupDefault == Group(<<115,103,45,49>>, <<100,101,102,97,117,108,116>>)  \* sg-1, default
GroupWeb == Group(<<115,103,45,50>>, <<119,101,98>>)            \* sg-2, web
ProfileArn == <<97,114,110,58,112>>                             \* arn:p
RoleArn == <<97,114,110,58,114>>                                \* arn:r

\* an instance with a duplicated tag and no instance profile
InstPlain ==
    [Tags |-> <<TagNameWeb1, TagEnvDb, TagNameWeb1>>,
     SecurityGroups |-> <<GroupWeb, GroupDefault>>,
     IamInstanceProfile |-> NilPtr]
\* an instance with an instance profile
InstProfile ==
    [Tags |-> <<TagEnvDb>>,
     SecurityGroups |-> <<GroupDefault>>,
     IamInstanceProfile |-> Profile(ProfileArn)]

DescribeOk(reservations) == [err |-> "", Reservations |-> reservations]
DescribeErr == [err |-> "RequestError", Reservations |-> <<>>]
ProfileOk(roles) == [err |-> "", Roles |-> roles]
ProfileErr == [err |-> "NoSuchEntity", Roles |-> <<>>]

ConcurrentDescribeOutputs == { DescribeOk(<< <<InstProfile>> >>) }
SequentialDescribeOutputs ==
    { DescribeErr,
      DescribeOk(<<>>),
      DescribeOk(<< <<InstPlain>> >>),
      DescribeOk(<< <<InstProfile, InstPlain>> >>),
      DescribeOk(<< <<InstPlain>>, <<InstPlain, InstProfile>> >>) }

ConcurrentProfileOutputs == { ProfileOk(<<[Arn |-> Ptr(RoleArn)]>>) }
SequentialProfileOutputs ==
    { ProfileErr,
      ProfileOk(<<[Arn |-> Ptr(RoleArn)], [Arn |-> NilPtr], [Arn |-> Ptr(RoleArn)]>>) }

\* req.Configuration: a payload hcl.Decode rejects, or one giving the two fields
Payload(ak, sk) == [decodable |-> TRUE, AccessKeyID |-> ak, SecretAccessKey |-> sk]
BadPayload == [decodable |-> FALSE, AccessKeyID |-> "", SecretAccessKey |-> ""]
\* the environment the getenv hook reads
Env(ak, sk) == [AWS_ACCESS_KEY_ID |-> ak, AWS_SECRET_ACCESS_KEY |-> sk]

ConcurrentPayloads == { Payload("id", "secret"), Payload("id", "") }
ConcurrentEnvs == { Env("", "") }
SequentialPayloads ==
    {BadPayload} \cup {Payload(ak, sk) : ak \in {"", "id"}, sk \in {"", "secret"}}
SequentialEnvs == {Env(ak, sk) : ak \in {"", "envid"}, sk \in {"", "envsecret"}}

(***************************************************************************)
(* The state.                                                              *)
(***************************************************************************)
Procs == {"p1", "p2"}

VARIABLES
    mu,        \* p.mu: the read holders and the write holder of the RWMutex
    conf,      \* p.conf: the active *aws.Config, NilConf before the first Configure
    clients,   \* p.clients: region -> client
    made,      \* the calls of the newClient hook so far
    ncalls,    \* the number of plugin calls started
    pc,        \* where each caller stands
    req,       \* each caller's current (or last) request
    frame,     \* the locals of the caller's running call
    ret,       \* what each caller's last call returned
    log        \* the client lookups and remote calls of each caller's Resolve

vars == <<mu, conf, clients, made, ncalls, pc, req, frame, ret, log>>

\* epoch is the identity of the *aws.Config: configurations are numbered in
\* the order they are installed
NilConf == [epoch |-> 0, Credentials |-> <<"", "">>, Region |-> <<>>]
NilClient == [id |-> 0, epoch |-> 0, Credentials |-> <<"", "">>, Region |-> <<>>]

\* idx, Map: Resolve's loop index and resp.Map; region .. selectorSet: the
\* locals of resolveSpiffeID; conf: the conf of Configure; began: the
\* configuration in force when getRegionClient was entered
NoFrame ==
    [idx |-> 0, Map |-> <<>>, region |-> <<>>, instanceID |-> <<>>,
     client |-> NilClient, instances |-> <<>>, j |-> 0, selectorSet |-> {},
     conf |-> NilConf, began |-> 0]

Running == [done |-> FALSE, err |-> "", resp |-> NilPtr]

Init ==
    /\ mu = [readers |-> {}, writer |-> {}]
    /\ conf = NilConf
    /\ clients = <<>>
    /\ made = <<>>
    /\ ncalls = 0
    /\ pc = [p \in Procs |-> "idle"]
    /\ req = [p \in Procs |-> [op |-> "none"]]
    /\ frame = [p \in Procs |-> NoFrame]
    /\ ret = [p \in Procs |-> Running]
    /\ log = [p \in Procs |-> <<>>]

\* the caller's next place, locals and log
Local(p, label, f, lg) ==
    /\ pc' = [pc EXCEPT ![p] = label]
    /\ frame' = [frame EXCEPT ![p] = f]
    /\ log' = [log EXCEPT ![p] = lg]
    /\ UNCHANGED ret

\* return resp, err: the call's locals are gone
Return(p, err, resp, lg) ==
    /\ pc' = [pc EXCEPT ![p] = "idle"]
    /\ frame' = [frame EXCEPT ![p] = NoFrame]
    /\ log' = [log EXCEPT ![p] = lg]
    /\ ret' = [ret EXCEPT ![p] = [done |-> TRUE, err |-> err, resp |-> resp]]

\* m[k] = v
MapPut(m, k, v) == [x \in DOMAIN m \cup {k} |-> IF x = k THEN v ELSE m[x]]

(***************************************************************************)
(* Resolve: the loop over the batch.                                       *)
(***************************************************************************)
\* Resolve returning what it has resolved so far beside the error
PartialResponse(Map) == Ptr([Map |-> Map])

\* Resolve returns nil, err: no response at all
ErrorResponse(Map) == NilPtr

\* Resolve storing only selectors that have entries
HasEntries(selectors) ==
    /\ selectors # NilPtr
    /\ Deref(selectors).Entries # <<>>

\* if selectors != nil
HasSelectors(selectors) == selectors # NilPtr

\* resolveSpiffeID returning the parse error
AbortOnUnrecognized(err) == [selectors |-> NilPtr, err |-> err]

\* return nil, nil of resolveSpiffeID for an id parseAgentID rejects
UnrecognizedAgentID(err) == [selectors |-> NilPtr, err |-> ""]

\* Resolve, from the return of resolveSpiffeID(ctx, spiffeID) to the next
\* turn of the loop
Resumed(p, selectors, err, lg) ==
    LET f == frame[p]
        spiffeID == req[p].BaseSpiffeIdList[f.idx]
    IN  IF err # ""
        THEN Return(p, err, ErrorResponse(f.Map), lg)
        ELSE Local(p, "loop",
                   [NoFrame EXCEPT !.idx = f.idx + 1,
                                   !.Map = IF HasSelectors(selectors)
                                           THEN MapPut(f.Map, spiffeID, Deref(selectors))
                                           ELSE f.Map],
                   lg)

\* ctx, the caller's context: not done, or cancelled by the caller
Background == "live"
Canceled == "canceled"

\* a call of Resolve begins
Resolve(p, ids) ==
    /\ pc[p] = "idle"
    /\ ncalls < MaxCalls
    /\ ncalls' = ncalls + 1
    /\ req' = [req EXCEPT ![p] = [op |-> "Resolve", BaseSpiffeIdList |-> ids,
                                  ctx |-> Background]]
    /\ pc' = [pc EXCEPT ![p] = "loop"]
    /\ frame' = [frame EXCEPT ![p] = [NoFrame EXCEPT !.idx = 1]]
    /\ log' = [log EXCEPT ![p] = <<>>]
    /\ ret' = [ret EXCEPT ![p] = Running]
    /\ UNCHANGED <<mu, conf, clients, made>>

\* one turn of the loop: the end of the batch, an id that does not parse, or
\* resolveSpiffeID up to its call of getRegionClient
ResolveNext(p) ==
    /\ pc[p] = "loop"
    /\ LET ids == req[p].BaseSpiffeIdList
           f == frame[p]
       IN  IF f.idx > Len(ids)
           THEN Return(p, "", Ptr([Map |-> f.Map]), log[p])
           ELSE LET a == parseAgentID(ids[f.idx])
                IN  IF a.err # ""
                    THEN Resumed(p, UnrecognizedAgentID(a.err).selectors,
                                    UnrecognizedAgentID(a.err).err, log[p])
                    ELSE Local(p, "rlock",
                               [f EXCEPT !.region = a.region,
                                         !.instanceID = a.instanceId,
                                         !.began = conf.epoch],
                               log[p])
    /\ UNCHANGED <<mu, conf, clients, made, ncalls, req>>

(***************************************************************************)
(* getRegionClient.                                                        *)
(***************************************************************************)
\* client, ok := p.clients[region]
Lookup(region) ==
    IF region \in DOMAIN clients
    THEN [ok |-> TRUE, client |-> clients[region]]
    ELSE [ok |-> FALSE, client |-> NilClient]

\* getRegionClient without the second look
NoDoubleCheck(region) == [ok |-> FALSE, client |-> NilClient]

\* the second look, under the write lock
DoubleCheck(region) == Lookup(region)

\* getRegionClient without the check of p.conf
NeverNotConfigured == FALSE

\* if p.conf == nil
NotConfigured == conf = NilConf

\* getRegionClient keeping the read lock
NoRUnlock(p) == mu

RUnlock(p) == [mu EXCEPT !.readers = @ \ {p}]

\* a critical section entered without the lock being taken
NoLock(p) == mu

\* p.mu.Lock(), once no one holds the lock
Lock(p) == [mu EXCEPT !.writer = {p}]

\* a critical section left with the write lock still held
NoUnlock(p) == mu

\* the deferred p.mu.Unlock()
Unlock(p) == [mu EXCEPT !.writer = @ \ {p}]

\* newAWSClient: session.NewSession(conf) copies the configuration it is given,
\* so the client keeps the credentials and the region conf has at that moment
newAWSClient(c, id) ==
    [id |-> id, epoch |-> c.epoch, Credentials |-> c.Credentials, Region |-> c.Region]

\* a request without the state filter
NoFilters == <<>>

instanceFilters ==
    << [Name |-> "instance-state-name", Values |-> <<"pending", "running">>] >>

\* the call of client.DescribeInstancesWithContext
DescribeInstancesCall(p, client) ==
    [op |-> "DescribeInstances", pos |-> frame[p].idx, client |-> client,
     ctx |-> req[p].ctx,
     in |-> [InstanceIds |-> <<frame[p].instanceID>>, Filters |-> instanceFilters],
     pending |-> TRUE, out |-> [err |-> ""]]

\* getRegionClient returns to resolveSpiffeID, which on success calls
\* DescribeInstancesWithContext on the client it was given; at names the
\* return statement: "read", "check" (the second look) or "made"
Returned(p, client, err, at) ==
    LET lg == Append(log[p],
                  [op |-> "getRegionClient", pos |-> frame[p].idx,
                   region |-> frame[p].region, client |-> client, err |-> err,
                   at |-> at, began |-> frame[p].began, ended |-> conf.epoch])
    IN  IF err # ""
        THEN Resumed(p, NilPtr, err, lg)
        ELSE Local(p, "describeWait", [frame[p] EXCEPT !.client = client],
                   Append(lg, DescribeInstancesCall(p, client)))

getRegionClientRLock(p) ==
    /\ pc[p] = "rlock"
    /\ mu.writer = {}
    /\ mu' = [mu EXCEPT !.readers = @ \cup {p}]
    /\ pc' = [pc EXCEPT ![p] = "rcheck"]
    /\ UNCHANGED <<conf, clients, made, ncalls, req, frame, ret, log>>

getRegionClientRead(p) ==
    /\ pc[p] = "rcheck"
    /\ mu' = RUnlock(p)
    /\ LET l == Lookup(frame[p].region)
       IN  IF l.ok
           THEN Returned(p, l.client, "", "read")
           ELSE /\ pc' = [pc EXCEPT ![p] = "wlock"]
                /\ UNCHANGED <<frame, ret, log>>
    /\ UNCHANGED <<conf, clients, made, ncalls, req>>

getRegionClientLock(p) ==
    /\ pc[p] = "wlock"
    /\ mu.writer = {}
    /\ mu.readers = {}
    /\ mu' = Lock(p)
    /\ pc' = [pc EXCEPT ![p] = "wcheck"]
    /\ UNCHANGED <<conf, clients, made, ncalls, req, frame, ret, log>>

\* the failure kept in the cache, to be found by the next lookup
MemoizedFailure(region) == MapPut(clients, region, NilClient)

\* if err != nil { return nil, err } after p.hooks.newClient: the cache is
\* left as it is
HookFailed(region) == clients

\* the critical section of getRegionClient; hookOk is whether the newClient
\* hook succeeds should it be called
getRegionClientCreate(p, hookOk) ==
    /\ pc[p] = "wcheck"
    /\ mu' = Unlock(p)
    /\ LET region == frame[p].region
           l == DoubleCheck(region)
           c == [conf EXCEPT !.Region = region]
           client == newAWSClient(c, Len(made) + 1)
       IN  IF l.ok
           THEN /\ Returned(p, l.client, "", "check")
                /\ UNCHANGED <<conf, clients, made>>
           ELSE IF NotConfigured
           THEN /\ Returned(p, NilClient, iidError("not configured"), "made")
                /\ UNCHANGED <<conf, clients, made>>
           ELSE /\ conf' = c
                /\ made' = Append(made, [epoch |-> c.epoch, region |-> region,
                                         ok |-> hookOk])
                /\ IF hookOk
                   THEN /\ clients' = MapPut(clients, region, client)
                        /\ Returned(p, client, "", "made")
                   ELSE /\ Returned(p, NilClient, iidError("new client failed"), "made")
                        /\ clients' = HookFailed(region)
    /\ UNCHANGED <<ncalls, req>>

(***************************************************************************)
(* resolveSpiffeID after getRegionClient.                                  *)
(***************************************************************************)
\* the instance profile asked of whatever client the cache holds now
CachedClient(p) == Lookup(frame[p].region).client

\* the client the instance profile is asked of
ProfileClient(p) == frame[p].client

\* instance.IamInstanceProfile != nil && instance.IamInstanceProfile.Arn != nil
HasInstanceProfile(instance) ==
    /\ instance.IamInstanceProfile # NilPtr
    /\ Deref(instance.IamInstanceProfile).Arn # NilPtr

\* the call of client.GetInstanceProfileWithContext
GetInstanceProfileCall(p, instance) ==
    [op |-> "GetInstanceProfile", pos |-> frame[p].idx, client |-> ProfileClient(p),
     ctx |-> req[p].ctx,
     in |-> [InstanceProfileName |-> Deref(instance.IamInstanceProfile).Arn],
     pending |-> TRUE, out |-> [err |-> ""]]

\* the error the client gives for a call whose context is done
RequestCanceled == "RequestCanceled"

\* the client is handed ctx (DescribeInstancesWithContext(ctx, ...),
\* GetInstanceProfileWithContext(ctx, ...)): a call made on a context that was
\* already done is refused with RequestCanceled, a call in flight may be
\* abandoned with it once the context is done, and no call is while it is not
WithContext(p, out) ==
    LET call == log[p][Len(log[p])]
    IN  /\ call.ctx = Canceled => out.err = RequestCanceled
        /\ out.err = RequestCanceled => req[p].ctx = Canceled

\* a remote error passed on as if the call had found nothing
SwallowError(err) == ""

\* return nil, iidError.Wrap(err)
WrapError(err) == iidError(err)

\* the answer to the remote call in flight arrives
Answered(p, out) ==
    [log[p] EXCEPT ![Len(log[p])] = [@ EXCEPT !.pending = FALSE, !.out = out]]

\* a failed remote call made once more
Retry(p, out) ==
    /\ Len(log[p]) < 6
    /\ Local(p, pc[p], frame[p], Append(Answered(p, out), log[p][Len(log[p])]))

\* if err != nil { return nil, iidError.Wrap(err) } after either remote call
Failure(p, out) == Resumed(p, NilPtr, WrapError(out.err), Answered(p, out))

\* the loop over the instances from instance j on, with the selectors found so
\* far: up to the next instance that has an instance profile (more: TRUE, and j
\* is that instance), or to the end
RECURSIVE resolveInstances(_, _, _)
resolveInstances(instances, j, selectorSet) ==
    IF j > Len(instances)
    THEN [more |-> FALSE, j |-> j, selectorSet |-> selectorSet]
    ELSE LET instance == instances[j]
             set == addSelectors(addSelectors(selectorSet,
                                              resolveTags(instance.Tags)),
                                 resolveSecurityGroups(instance.SecurityGroups))
         IN  IF HasInstanceProfile(instance)
             THEN [more |-> TRUE, j |-> j, selectorSet |-> set]
             ELSE resolveInstances(instances, j + 1, set)

\* resolveSpiffeID from instance j on: it calls GetInstanceProfileWithContext
\* for the next instance that has a profile, or sorts the selectors and returns
Proceed(p, instances, j, selectorSet, lg) ==
    LET r == resolveInstances(instances, j, selectorSet)
    IN  IF r.more
        THEN Local(p, "profileWait",
                   [frame[p] EXCEPT !.instances = instances, !.j = r.j,
                                    !.selectorSet = r.selectorSet],
                   Append(lg, GetInstanceProfileCall(p, instances[r.j])))
        ELSE Resumed(p, Ptr(MakeSelectors(r.selectorSet)), "", lg)

\* DescribeInstancesWithContext returns
DescribeInstancesReturn(p, out) ==
    /\ pc[p] = "describeWait"
    /\ WithContext(p, out)
    /\ IF out.err # ""
       THEN Failure(p, out)
       ELSE Proceed(p, Instances(out.Reservations), 1, {}, Answered(p, out))
    /\ UNCHANGED <<mu, conf, clients, made, ncalls, req>>

\* GetInstanceProfileWithContext returns
GetInstanceProfileReturn(p, out) ==
    /\ pc[p] = "profileWait"
    /\ WithContext(p, out)
    /\ IF out.err # ""
       THEN Failure(p, out)
       ELSE Proceed(p, frame[p].instances, frame[p].j + 1,
                    addSelectors(frame[p].selectorSet,
                                 resolveInstanceProfile(out.Roles)),
                    Answered(p, out))
    /\ UNCHANGED <<mu, conf, clients, made, ncalls, req>>

\* the caller cancels the context of its running Resolve
Cancel(p) ==
    /\ pc[p] # "idle"
    /\ req[p].op = "Resolve"
    /\ req[p].ctx = Background
    /\ req' = [req EXCEPT ![p].ctx = Canceled]
    /\ UNCHANGED <<mu, conf, clients, made, ncalls, pc, frame, ret, log>>

(***************************************************************************)
(* Configure.                                                              *)
(***************************************************************************)
\* Configure without the defaults from the environment
NoEnvDefaults(payload, env) ==
    [AccessKeyID |-> payload.AccessKeyID, SecretAccessKey |-> payload.SecretAccessKey]

\* Set defaults from the environment
envDefaults(payload, env) ==
    [AccessKeyID |-> IF payload.AccessKeyID = ""
                     THEN env.AWS_ACCESS_KEY_ID ELSE payload.AccessKeyID,
     SecretAccessKey |-> IF payload.SecretAccessKey = ""
                         THEN env.AWS_SECRET_ACCESS_KEY ELSE payload.SecretAccessKey]

\* the switch over the two fields: the error, "" when both are there
checkCredentials(config) ==
    IF config.AccessKeyID # "" /\ config.SecretAccessKey # "" THEN ""
    ELSE IF config.AccessKeyID # "" /\ config.SecretAccessKey = ""
    THEN iidError("configuration missing secret access key")
    ELSE IF config.AccessKeyID = "" /\ config.SecretAccessKey # ""
    THEN iidError("configuration missing access key id")
    ELSE iidError("configuration missing both access key id and secret access key")

\* Configure leaving the cache as it is
KeptClientMap == clients

\* p.clients = make(map[string]awsClient)
NewClientMap == <<>>

\* a Configure that resets the plugin before it checks what it was given
ResetFirst == [conf |-> NilConf, clients |-> <<>>]

\* return nil, iidError.New(...) of Configure: the returns come before the
\* assignments to p.conf and p.clients
Rejected == [conf |-> conf, clients |-> clients]

\* a call of Configure, up to p.mu.Lock()
Configure(p, payload, env) ==
    /\ pc[p] = "idle"
    /\ ncalls < MaxCalls
    /\ ncalls' = ncalls + 1
    /\ req' = [req EXCEPT ![p] = [op |-> "Configure", Configuration |-> payload,
                                  env |-> env]]
    /\ IF ~payload.decodable
       THEN /\ Return(p, iidError("unable to decode configuration"), NilPtr, <<>>)
            /\ conf' = Rejected.conf
            /\ clients' = Rejected.clients
       ELSE LET config == envDefaults(payload, env)
                err == checkCredentials(config)
            IN  IF err # ""
                THEN /\ Return(p, err, NilPtr, <<>>)
                     /\ conf' = Rejected.conf
                     /\ clients' = Rejected.clients
                ELSE /\ pc' = [pc EXCEPT ![p] = "cfgLock"]
                     /\ frame' = [frame EXCEPT ![p] =
                            [NoFrame EXCEPT !.conf =
                                [NilConf EXCEPT !.Credentials =
                                    <<config.AccessKeyID, config.SecretAccessKey>>]]]
                     /\ log' = [log EXCEPT ![p] = <<>>]
                     /\ ret' = [ret EXCEPT ![p] = Running]
                     /\ UNCHANGED <<conf, clients>>
    /\ UNCHANGED <<mu, made>>

ConfigureLock(p) ==
    /\ pc[p] = "cfgLock"
    /\ mu.writer = {}
    /\ mu.readers = {}
    /\ mu' = Lock(p)
    /\ pc' = [pc EXCEPT ![p] = "cfgSet"]
    /\ UNCHANGED <<conf, clients, made, ncalls, req, frame, ret, log>>

\* p.conf = conf; p.clients = make(...); the deferred Unlock; the return
ConfigureSet(p) ==
    /\ pc[p] = "cfgSet"
    /\ conf' = [frame[p].conf EXCEPT !.epoch = conf.epoch + 1]
    /\ clients' = NewClientMap
    /\ mu' = Unlock(p)
    /\ Return(p, "", Ptr("ConfigureResponse"), <<>>)
    /\ UNCHANGED <<made, ncalls, req>>

\* the two assignments of Configure apart: p.conf = conf
ConfigureConf(p) ==
    /\ pc[p] = "cfgSet"
    /\ conf' = [frame[p].conf EXCEPT !.epoch = conf.epoch + 1]
    /\ pc' = [pc EXCEPT ![p] = "cfgClients"]
    /\ UNCHANGED <<mu, clients, made, ncalls, req, frame, ret, log>>

\* p.clients = make(...); the deferred Unlock; the return
ConfigureClients(p) ==
    /\ pc[p] = "cfgClients"
    /\ clients' = NewClientMap
    /\ mu' = Unlock(p)
    /\ Return(p, "", Ptr("ConfigureResponse"), <<>>)
    /\ UNCHANGED <<conf, made, ncalls, req>>

(***************************************************************************)
(* The specifications.                                                     *)
(***************************************************************************)
Step(P, batches, describeOutputs, profileOutputs, payloads, envs) ==
    \E p \in P :
        \/ \E ids \in batches : Resolve(p, ids)
        \/ ResolveNext(p)
        \/ getRegionClientRLock(p)
        \/ getRegionClientRead(p)
        \/ getRegionClientLock(p)
        \/ \E hookOk \in BOOLEAN : getRegionClientCreate(p, hookOk)
        \/ \E out \in describeOutputs : DescribeInstancesReturn(p, out)
        \/ \E out \in profileOutputs : GetInstanceProfileReturn(p, out)
        \/ \E payload \in payloads, env \in envs : Configure(p, payload, env)
        \/ ConfigureLock(p)
        \/ ConfigureSet(p)

\* callers running concurrently
Next ==
    Step(Procs, ConcurrentBatches, ConcurrentDescribeOutputs,
         ConcurrentProfileOutputs, ConcurrentPayloads, ConcurrentEnvs)

Spec == Init /\ [][Next]_vars

\* one caller, one call after the other, over the wider inputs
NextSeq ==
    Step({"p1"}, SequentialBatches, SequentialDescribeOutputs,
         SequentialProfileOutputs, ConcurrentPayloads, ConcurrentEnvs)

SpecSeq == Init /\ [][NextSeq]_vars

\* one caller configuring the plugin again and again, over every payload and
\* environment
NextConfigure ==
    \E p \in {"p1"} :
        \/ \E payload \in SequentialPayloads, env \in SequentialEnvs :
               Configure(p, payload, env)
        \/ ConfigureLock(p)
        \/ ConfigureSet(p)

SpecConfigure == Init /\ [][NextConfigure]_vars

\* one caller whose context may be cancelled at any point of its Resolve
DescribeCanceled == [err |-> RequestCanceled, Reservations |-> <<>>]
ProfileCanceled == [err |-> RequestCanceled, Roles |-> <<>>]
CancelBatches == SeqsUpTo({IdR1, IdMalformed}, MaxBatch)

NextCancel ==
    \/ Step({"p1"}, CancelBatches,
            ConcurrentDescribeOutputs \cup {DescribeCanceled},
            ConcurrentProfileOutputs \cup {ProfileCanceled},
            ConcurrentPayloads, ConcurrentEnvs)
    \/ Cancel("p1")

SpecCancel == Init /\ [][NextCancel]_vars

(***************************************************************************)
(* What the properties below speak of.                                     *)
(***************************************************************************)
IsResolve(p) == req[p].op = "Resolve"
IsConfigure(p) == req[p].op = "Configure"
Parses(spiffeID) == parseAgentID(spiffeID).err = ""
IsLookup(e) == e.op = "getRegionClient"
IsRemote(e) == e.op \in {"DescribeInstances", "GetInstanceProfile"}
Failed(e) == IF IsLookup(e) THEN e.err # "" ELSE ~e.pending /\ e.out.err # ""
Range(seq) == {seq[i] : i \in DOMAIN seq}

\* the successful lookups of caller p's Resolve
Lookups(p) == {e \in Range(log[p]) : IsLookup(e) /\ e.err = ""}

\* the calls of the newClient hook for region r under configuration e
Made(e, r) == {i \in DOMAIN made : made[i].epoch = e /\ made[i].region = r}

\* the mapping caller p's Resolve has built or returned
ResolvedMap(p) ==
    IF ~ret[p].done THEN frame[p].Map
    ELSE IF ret[p].resp = NilPtr THEN <<>>
    ELSE Deref(ret[p].resp).Map

\* the positions of the batch that Resolve has gone past without an error
Passed(p) ==
    IF ~ret[p].done THEN 1..(frame[p].idx - 1)
    ELSE IF ret[p].err = "" THEN DOMAIN req[p].BaseSpiffeIdList
    ELSE {}

\* the position whose selectors the mapping holds for spiffeID: the last one
LastPos(p, spiffeID) ==
    CHOOSE i \in Passed(p) :
        /\ req[p].BaseSpiffeIdList[i] = spiffeID
        /\ \A k \in Passed(p) : req[p].BaseSpiffeIdList[k] = spiffeID => k <= i

\* the instances and roles the inventory returned for position pos
InstancesAt(p, pos) ==
    UNION {Range(Instances(e.out.Reservations)) :
             e \in {x \in Range(log[p]) :
                      x.op = "DescribeInstances" /\ x.pos = pos /\ ~x.pending}}
RolesAt(p, pos) ==
    UNION {Range(e.out.Roles) :
             e \in {x \in Range(log[p]) :
                      x.op = "GetInstanceProfile" /\ x.pos = pos /\ ~x.pending}}

\* the raw attribute values of these instances and roles: tag:<key>:<value>,
\* sg:id:<id>, sg:name:<name>, iamrole:<arn>
RawValues(instances, roles) ==
    LET tags == UNION {Range(i.Tags) : i \in instances}
        groups == UNION {Range(i.SecurityGroups) : i \in instances}
    IN  {TagPrefix \o StringValue(t.Key) \o Colon \o StringValue(t.Value) : t \in tags}
        \cup {SgIdPrefix \o StringValue(g.GroupId) : g \in groups}
        \cup {SgNamePrefix \o StringValue(g.GroupName) : g \in groups}
        \cup {IamRolePrefix \o Deref(r.Arn) : r \in {x \in roles : x.Arn # NilPtr}}

(***************************************************************************)
(* C1. Within one configuration epoch, the newClient hook succeeds at most *)
(* once for a region, and every getRegionClient call for that region that  *)
(* ran within the epoch returned the client of that one construction; if   *)
(* no construction failed, the hook was called exactly once.               *)
(***************************************************************************)
C1_OneClientPerEpoch ==
    /\ \A i, k \in DOMAIN made :
          (/\ made[i].epoch = made[k].epoch
           /\ made[i].region = made[k].region
           /\ made[i].ok /\ made[k].ok) => i = k
    /\ \A p \in Procs : \A e \in Lookups(p) :
          e.began = e.ended =>
             /\ e.client.id \in Made(e.ended, e.region)
             /\ made[e.client.id].ok
             /\ (\A i \in Made(e.ended, e.region) : made[i].ok)
                   => Made(e.ended, e.region) = {e.client.id}
    /\ \A p, q \in Procs : \A e \in Lookups(p), d \in Lookups(q) :
          (/\ e.began = e.ended /\ d.began = d.ended
           /\ e.ended = d.ended /\ e.region = d.region) => e.client = d.client

\* two callers raced to the first use of a region: one made the client, the
\* other found it at its second look
C1_Witness ==
    \E e \in Lookups("p1"), d \in Lookups("p2") :
        /\ e.region = d.region /\ e.ended = d.ended
        /\ e.began = e.ended /\ d.began = d.ended
        /\ e.at = "made" /\ d.at = "check"
        /\ e.client = d.client
        /\ Cardinality(Made(e.ended, e.region)) = 1

(***************************************************************************)
(* C2. A getRegionClient call never returns a client built under a         *)
(* configuration older than the one in force when the call began (every    *)
(* Configure that had returned by then had installed that one or an        *)
(* earlier one).                                                           *)
(***************************************************************************)
C2_NoSupersededClient ==
    \A p \in Procs : \A e \in Lookups(p) :
        /\ e.client.epoch >= e.began
        /\ e.client.epoch <= e.ended

\* a call that began after a second Configure, for a region that had a client
\* under the first
C2_Witness ==
    \E p \in Procs : \E e \in Lookups(p) :
        /\ e.began = 2
        /\ e.client.epoch = 2
        /\ \E i \in Made(1, e.region) : made[i].ok

(***************************************************************************)
(* C3 as stated: Resolve before any successful Configure returns the       *)
(* "not configured" error, whatever the batch.                             *)
(***************************************************************************)
C3_AlwaysConfigError ==
    \A p \in Procs :
        (IsResolve(p) /\ ret[p].done /\ conf.epoch = 0)
            => ret[p].err = iidError("not configured")

(***************************************************************************)
(* C3 amended. While no Configure has succeeded, no client is constructed  *)
(* and no remote call is made; a Resolve whose batch holds an id that      *)
(* parses returns the "not configured" error and no response, and a        *)
(* Resolve whose batch holds none returns an empty mapping and no error.   *)
(***************************************************************************)
C3_ConfigErrorIfParsable ==
    conf.epoch = 0 =>
        /\ made = <<>>
        /\ clients = <<>>
        /\ \A p \in Procs :
              /\ \A e \in Range(log[p]) : ~IsRemote(e)
              /\ (IsResolve(p) /\ ret[p].done) =>
                    IF \E i \in DOMAIN req[p].BaseSpiffeIdList :
                           Parses(req[p].BaseSpiffeIdList[i])
                    THEN /\ ret[p].err = iidError("not configured")
                         /\ ret[p].resp = NilPtr
                    ELSE /\ ret[p].err = ""
                         /\ ret[p].resp = Ptr([Map |-> <<>>])

\* an unconfigured Resolve that went past an id that does not parse and
\* failed at one that does
C3_Witness ==
    \E p \in Procs :
        /\ IsResolve(p) /\ ret[p].done /\ conf.epoch = 0
        /\ ret[p].err = iidError("not configured")
        /\ Len(req[p].BaseSpiffeIdList) = 2
        /\ ~Parses(req[p].BaseSpiffeIdList[1])
        /\ Len(log[p]) = 1 /\ log[p][1].pos = 2

(***************************************************************************)
(* C4. An id that does not parse causes no client lookup, no remote call   *)
(* and no error, and is absent from the mapping; the ids that parse are    *)
(* looked up one after the other in batch order wherever the others        *)
(* stand, and a Resolve that returns without error maps every one of them  *)
(* to the selectors of what the inventory returned for it.                 *)
(***************************************************************************)
C4_MalformedSkipped ==
    \A p \in Procs : IsResolve(p) =>
        LET ids == req[p].BaseSpiffeIdList
            good == {i \in DOMAIN ids : Parses(ids[i])}
            looked == {e.pos : e \in {x \in Range(log[p]) : IsLookup(x)}}
        IN  /\ \A e \in Range(log[p]) : e.pos \in good
            /\ \A i \in looked : \A k \in good : k < i => k \in looked
            /\ \A i \in Passed(p) : i \in good => i \in looked
            /\ \A id \in DOMAIN ResolvedMap(p) : Parses(id)
            /\ (ret[p].done /\ ret[p].err # "") =>
                  /\ log[p] # <<>>
                  /\ Failed(log[p][Len(log[p])])
            /\ (ret[p].done /\ ret[p].err = "") =>
                  /\ DOMAIN ResolvedMap(p) = {ids[i] : i \in good}
                  /\ \A id \in DOMAIN ResolvedMap(p) :
                        Range(ResolvedMap(p)[id].Entries) =
                           {[Type |-> pluginName, Value |-> v] :
                              v \in RawValues(InstancesAt(p, LastPos(p, id)),
                                              RolesAt(p, LastPos(p, id)))}

\* a batch whose first id does not parse and whose second resolved
C4_Witness ==
    \E p \in Procs :
        /\ IsResolve(p) /\ ret[p].done /\ ret[p].err = ""
        /\ Len(req[p].BaseSpiffeIdList) = 2
        /\ ~Parses(req[p].BaseSpiffeIdList[1])
        /\ DOMAIN ResolvedMap(p) = {req[p].BaseSpiffeIdList[2]}
        /\ ResolvedMap(p)[req[p].BaseSpiffeIdList[2]].Entries # <<>>

(***************************************************************************)
(* C5 as stated: an id for which DescribeInstances returned no instance    *)
(* has no entry in the mapping.                                            *)
(***************************************************************************)
\* the ids Resolve went past whose (last) DescribeInstances returned nothing
ZeroInstanceIds(p) ==
    {id \in {req[p].BaseSpiffeIdList[i] : i \in Passed(p)} :
        /\ Parses(id)
        /\ InstancesAt(p, LastPos(p, id)) = {}}

C6_FailureAbortsBatch ==
    \A p \in Procs : IsResolve(p) =>
        /\ \A k \in DOMAIN log[p] :
              Failed(log[p][k]) =>
                 /\ k = Len(log[p])
                 /\ \A i \in DOMAIN log[p] : log[p][i].pos <= log[p][k].pos
                 /\ ret[p].done
                 /\ ret[p].err # ""
                 /\ ret[p].err =
                       (IF IsLookup(log[p][k]) THEN log[p][k].err
                        ELSE iidError(log[p][k].out.err))
        /\ (ret[p].done /\ ret[p].err # "") => ret[p].resp = NilPtr

\* the second id of a batch failed after the first had been resolved
C6_Witness ==
    \E p \in Procs :
        /\ IsResolve(p) /\ ret[p].done /\ ret[p].err # ""
        /\ log[p][Len(log[p])].pos = 2
        /\ \E k \in DOMAIN log[p] :
              /\ log[p][k].pos = 1
              /\ log[p][k].op = "GetInstanceProfile"
              /\ ~Failed(log[p][k])

(***************************************************************************)
(* C7. The selectors of every id in the mapping are the distinct raw       *)
(* attribute values of what the inventory returned for it, each once, in   *)
(* strictly increasing byte order, each of type aws_iid: whatever the      *)
(* order and the multiplicity in which instances, tags, groups and roles   *)
(* came.                                                                   *)
(***************************************************************************)
\* a comes before b in byte order
Before(a, b) ==
    \E k \in 1..(Len(b)) :
        /\ \A i \in 1..(k - 1) : i <= Len(a) /\ a[i] = b[i]
        /\ (k > Len(a) \/ (k <= Len(a) /\ a[k] < b[k]))
        /\ k <= Len(a) + 1

C7_SortedDistinctSelectors ==
    \A p \in Procs : IsResolve(p) =>
        \A id \in DOMAIN ResolvedMap(p) :
            LET sel == ResolvedMap(p)[id].Entries
                raw == RawValues(InstancesAt(p, LastPos(p, id)),
                                 RolesAt(p, LastPos(p, id)))
            IN  /\ \A i \in DOMAIN sel : sel[i].Type = "aws_iid"
                /\ \A i \in 1..(Len(sel) - 1) : Before(sel[i].Value, sel[i + 1].Value)
                /\ {sel[i].Value : i \in DOMAIN sel} = raw
                /\ Len(sel) = Cardinality(raw)

\* two reservations, three instances, a duplicated tag, a role returned twice
C7_Witness ==
    \E p \in Procs :
        /\ IsResolve(p) /\ ret[p].done /\ ret[p].err = ""
        /\ \E id \in DOMAIN ResolvedMap(p) :
              /\ Len(ResolvedMap(p)[id].Entries) = 7
              /\ \E e \in Range(log[p]) :
                    /\ e.op = "DescribeInstances" /\ e.pos = LastPos(p, id)
                    /\ Len(e.out.Reservations) = 2
                    /\ Len(Instances(e.out.Reservations)) = 3

(***************************************************************************)
(* C8. Every remote call of a Resolve goes to the client getRegionClient   *)
(* returned for that id, whatever Configure has done to the cache since,   *)
(* and the selectors are those of what these calls returned; a Configure   *)
(* waiting for the lock finds it free when the other callers are outside   *)
(* their critical sections, in flight or not.                              *)
(***************************************************************************)
C8_InFlightKeepsClient ==
    /\ \A p \in Procs : \A k \in DOMAIN log[p] :
          IsRemote(log[p][k]) =>
             \E i \in 1..(k - 1) :
                /\ IsLookup(log[p][i])
                /\ log[p][i].err = ""
                /\ log[p][i].pos = log[p][k].pos
                /\ log[p][i].client = log[p][k].client
                /\ log[p][k].pending => frame[p].client = log[p][i].client
    /\ \A p \in Procs : IsResolve(p) =>
          \A id \in DOMAIN ResolvedMap(p) :
             {ResolvedMap(p)[id].Entries[i].Value :
                 i \in DOMAIN ResolvedMap(p)[id].Entries}
               = RawValues(InstancesAt(p, LastPos(p, id)), RolesAt(p, LastPos(p, id)))
    /\ \A q \in Procs :
          (/\ pc[q] = "cfgLock"
           /\ \A p \in Procs : pc[p] \notin {"rcheck", "wcheck", "cfgSet"})
             => mu = [readers |-> {}, writer |-> {}]

\* GetInstanceProfile in flight on a client that a Configure, made after the
\* client was obtained, has dropped from the cache
C8_Witness ==
    \E p \in Procs :
        /\ pc[p] = "profileWait"
        /\ log[p][Len(log[p])].pending
        /\ log[p][Len(log[p])].client.id # 0
        /\ log[p][Len(log[p])].client.epoch < conf.epoch
        /\ \E e \in Lookups(p) :
              /\ e.client = log[p][Len(log[p])].client
              /\ e.ended = e.client.epoch

(***************************************************************************)
(* C9. A caller with a remote call in flight holds neither the read lock   *)
(* nor the write lock; the read lock is held only for the cache lookup,    *)
(* the write lock only for the second look with construction and           *)
(* insertion and for the replacement of configuration and cache.           *)
(***************************************************************************)
C9_NoLockDuringRemoteCall ==
    /\ \A p \in Procs :
          /\ pc[p] \in {"describeWait", "profileWait"}
                => p \notin mu.readers /\ p \notin mu.writer
          /\ p \in mu.readers <=> pc[p] = "rcheck"
          /\ p \in mu.writer <=> pc[p] \in {"wcheck", "cfgSet"}
    /\ Cardinality(mu.writer) <= 1
    /\ mu.writer # {} => mu.readers = {}

\* one caller holds the write lock while the other has a remote call in flight
C9_Witness ==
    \E p, q \in Procs :
        /\ pc[p] \in {"describeWait", "profileWait"}
        /\ log[p][Len(log[p])].pending
        /\ mu.writer = {q}

(***************************************************************************)
(* C10. With the two fields taken from the payload, or from the            *)
(* environment where the payload leaves one empty, Configure succeeds      *)
(* exactly when both are non-empty, and otherwise returns the error that   *)
(* names what is missing.                                                  *)
(***************************************************************************)
C10_CredentialsChecked ==
    \A p \in Procs : (IsConfigure(p) /\ req[p].Configuration.decodable) =>
        LET c == req[p].Configuration
            ak == IF c.AccessKeyID # "" THEN c.AccessKeyID
                  ELSE req[p].env.AWS_ACCESS_KEY_ID
            sk == IF c.SecretAccessKey # "" THEN c.SecretAccessKey
                  ELSE req[p].env.AWS_SECRET_ACCESS_KEY
        IN  /\ (ak # "" /\ sk # "") =>
                  /\ ret[p].err = ""
                  /\ pc[p] \in {"cfgLock", "cfgSet", "idle"}
                  /\ ret[p].done <=> pc[p] = "idle"
                  /\ ret[p].done =>
                        /\ ret[p].resp # NilPtr
                        /\ conf.Credentials = <<ak, sk>>
            /\ (ak # "" /\ sk = "") =>
                  /\ ret[p].done
                  /\ ret[p].err = "aws-iid: configuration missing secret access key"
            /\ (ak = "" /\ sk # "") =>
                  /\ ret[p].done
                  /\ ret[p].err = "aws-iid: configuration missing access key id"
            /\ (ak = "" /\ sk = "") =>
                  /\ ret[p].done
                  /\ ret[p].err =
                       "aws-iid: configuration missing both access key id and secret access key"
            /\ (ret[p].done /\ ret[p].err # "") => ret[p].resp = NilPtr

\* the access key came from the environment and the secret from nowhere
C10_Witness ==
    \E p \in Procs :
        /\ IsConfigure(p) /\ ret[p].done
        /\ req[p].Configuration.decodable
        /\ req[p].Configuration.AccessKeyID = ""
        /\ req[p].env.AWS_ACCESS_KEY_ID # ""
        /\ ret[p].err = "aws-iid: configuration missing secret access key"

\* the remote calls of caller p's Resolve, in the order they were made
RemoteCalls(p) == SelectSeq(log[p], IsRemote)
IsCanceled(e) == IsRemote(e) /\ ~e.pending /\ e.out.err = RequestCanceled

(***************************************************************************)
(* C11 (as stated). A Resolve whose context was cancelled while it ran     *)
(* returns an error and no mapping, and no remote call is made on the      *)
(* cancelled context.                                                      *)
(***************************************************************************)
C11_CancelAlwaysFails ==
    \A p \in Procs : (IsResolve(p) /\ req[p].ctx = Canceled) =>
        /\ ret[p].done => ret[p].err # "" /\ ret[p].resp = NilPtr
        /\ \A e \in Range(log[p]) : IsRemote(e) => e.ctx = Background

(***************************************************************************)
(* C11. Resolve hands its context to every remote call and does not look   *)
(* at it otherwise. A remote call that the client abandons or refuses with *)
(* the cancellation error is the last one Resolve makes: Resolve returns   *)
(* that error, wrapped, and no mapping, and at most one call is ever made  *)
(* on the cancelled context. A cancelled Resolve that completes with a     *)
(* mapping made every remote call before the cancellation and none was     *)
(* cancelled.                                                              *)
(***************************************************************************)
C11_CanceledCallAbortsResolve ==
    \A p \in Procs : IsResolve(p) =>
        /\ \A k \in DOMAIN log[p] :
              IsCanceled(log[p][k]) =>
                 /\ k = Len(log[p])
                 /\ req[p].ctx = Canceled
                 /\ ret[p].done
                 /\ ret[p].err = "aws-iid: RequestCanceled"
                 /\ ret[p].resp = NilPtr
        /\ \A k \in DOMAIN log[p] :
              (IsRemote(log[p][k]) /\ log[p][k].ctx = Canceled) =>
                 /\ k = Len(log[p])
                 /\ ~log[p][k].pending => IsCanceled(log[p][k])
        /\ (ret[p].done /\ ret[p].err = "" /\ req[p].ctx = Canceled) =>
              \A e \in Range(log[p]) :
                 IsRemote(e) => e.ctx = Background /\ ~IsCanceled(e)

\* a Resolve that was cancelled with DescribeInstances in flight for its
\* second identity, after the first was resolved, and returned the error
C11_Witness ==
    \E p \in Procs :
        /\ IsResolve(p) /\ ret[p].done
        /\ req[p].ctx = Canceled
        /\ ret[p].err = "aws-iid: RequestCanceled"
        /\ Len(RemoteCalls(p)) >= 2
        /\ log[p][Len(log[p])].ctx = Background
        /\ IsCanceled(log[p][Len(log[p])])

(***************************************************************************)
(* An inventory that honours the filters of the request it is sent.        *)
(***************************************************************************)
StateTag(state) == Tag(<<115,116,97,116,101>>, state)              \* state=<state>
RunningValue == <<114,117,110,110,105,110,103>>                        \* running
StoppedValue == <<115,116,111,112,112,101,100>>                        \* stopped

\* the instances of the account: i1 runs in r1; in r2, i2 was stopped and
\* its record is still there
InventoryInstances ==
    { [Region |-> <<114,49>>, InstanceId |-> <<105,49>>, State |-> "running",
       Tags |-> <<StateTag(RunningValue)>>, SecurityGroups |-> <<GroupDefault>>,
       IamInstanceProfile |-> Profile(ProfileArn)],
      [Region |-> <<114,50>>, InstanceId |-> <<105,50>>, State |-> "stopped",
       Tags |-> <<StateTag(StoppedValue)>>, SecurityGroups |-> <<GroupWeb>>,
       IamInstanceProfile |-> NilPtr] }

\* the instance passes the filter of the request
MatchesFilter(instance, filter) ==
    filter.Name = "instance-state-name" =>
        instance.State \in {filter.Values[i] : i \in DOMAIN filter.Values}

\* the answer of the inventory of the client's region to the request
DescribeInstancesOutput(client, in) ==
    DescribeOk(<< MapKeys({i \in InventoryInstances :
                      /\ i.Region = client.Region
                      /\ i.InstanceId \in {in.InstanceIds[k] : k \in DOMAIN in.InstanceIds}
                      /\ \A f \in DOMAIN in.Filters : MatchesFilter(i, in.Filters[f])}) >>)

\* the answers caller p's DescribeInstances call in flight can get
InventoryOutputs(p) ==
    IF pc[p] = "describeWait"
    THEN LET call == log[p][Len(log[p])]
         IN  {DescribeErr, DescribeInstancesOutput(call.client, call.in)}
    ELSE {}

InventoryBatches == SeqsUpTo({IdR1, IdR2}, MaxBatch)

NextInventory ==
    Step({"p1"}, InventoryBatches, InventoryOutputs("p1"),
         ConcurrentProfileOutputs \cup {ProfileErr}, ConcurrentPayloads,
         ConcurrentEnvs)

SpecInventory == Init /\ [][NextInventory]_vars

(***************************************************************************)
(* C12. Every DescribeInstances request of Resolve names one instance id,  *)
(* the third segment of the identity it is made for, carries the filter    *)
(* instance-state-name in {pending, running}, and is sent on a client of   *)
(* the identity's region; with an inventory that honours the filter, the   *)
(* selectors of an identity come from pending or running instances only.   *)
(***************************************************************************)
C12_DescribeRequestScoped ==
    \A p \in Procs : IsResolve(p) =>
        /\ \A e \in Range(log[p]) : e.op = "DescribeInstances" =>
              LET a == parseAgentID(req[p].BaseSpiffeIdList[e.pos])
              IN  /\ a.err = ""
                  /\ e.in.InstanceIds = <<a.instanceId>>
                  /\ e.in.Filters =
                        << [Name |-> "instance-state-name",
                            Values |-> <<"pending", "running">>] >>
                  /\ e.client.Region = a.region
        /\ \A id \in DOMAIN ResolvedMap(p) :
              LET a == parseAgentID(id)
                  live == {i \in InventoryInstances :
                              /\ i.Region = a.region
                              /\ i.InstanceId = a.instanceId
                              /\ i.State \in {"pending", "running"}}
              IN  \A k \in DOMAIN ResolvedMap(p)[id].Entries :
                      ResolvedMap(p)[id].Entries[k].Value
                          \in RawValues(live, RolesAt(p, LastPos(p, id)))

\* an identity whose instance is stopped was resolved, beside one that runs
C12_Witness ==
    \E p \in Procs :
        /\ IsResolve(p) /\ ret[p].done /\ ret[p].err = ""
        /\ IdR2 \in DOMAIN ResolvedMap(p)
        /\ ResolvedMap(p)[IdR2].Entries = <<>>
        /\ IdR1 \in DOMAIN ResolvedMap(p)
        /\ ResolvedMap(p)[IdR1].Entries # <<>>

(***************************************************************************)
(* The resolution of one instance with a tag, a security group and an      *)
(* instance profile.                                                       *)
(***************************************************************************)
\* spiffe://example.org/spire/agent/aws_iid/123456789012/us-east-1/i-0abcd1234
IdExample ==
    <<115,112,105,102,102,101,58,47,47,101,120,97,109,112,108,101,46,111,
      114,103,47,115,112,105,114,101,47,97,103,101,110,116,47,97,119,115,
      95,105,105,100,47,49,50,51,52,53,54,55,56,57,48,49,50,47,117,115,45,
      101,97,115,116,45,49,47,105,45,48,97,98,99,100,49,50,51,52>>

\* arn:aws:iam::123456789012:instance-profile/p1
ExampleProfileArn ==
    <<97,114,110,58,97,119,115,58,105,97,109,58,58,49,50,51,52,53,54,55,
      56,57,48,49,50,58,105,110,115,116,97,110,99,101,45,112,114,111,102,
      105,108,101,47,112,49>>

\* arn:aws:iam::123456789012:role/role1
ExampleRoleArn ==
    <<97,114,110,58,97,119,115,58,105,97,109,58,58,49,50,51,52,53,54,55,
      56,57,48,49,50,58,114,111,108,101,47,114,111,108,101,49>>

\* tag Name=web1, security group (sg-1, default), an instance profile
ExampleInstance ==
    [Tags |-> <<TagNameWeb1>>,
     SecurityGroups |-> <<GroupDefault>>,
     IamInstanceProfile |-> Profile(ExampleProfileArn)]

ExampleBatches == SeqsUpTo({IdExample}, MaxBatch)
ExampleDescribeOutputs == { DescribeOk(<< <<ExampleInstance>> >>) }
ExampleProfileOutputs == { ProfileOk(<<[Arn |-> Ptr(ExampleRoleArn)]>>) }

NextExample ==
    Step({"p1"}, ExampleBatches, ExampleDescribeOutputs, ExampleProfileOutputs,
         ConcurrentPayloads, ConcurrentEnvs)

SpecExample == Init /\ [][NextExample]_vars

\* iamrole:arn:aws:iam::123456789012:role/role1
SelIamRole ==
    <<105,97,109,114,111,108,101,58,97,114,110,58,97,119,115,58,105,97,
      109,58,58,49,50,51,52,53,54,55,56,57,48,49,50,58,114,111,108,101,47,
      114,111,108,101,49>>

\* sg:id:sg-1
SelSgId ==
    <<115,103,58,105,100,58,115,103,45,49>>

\* sg:name:default
SelSgName ==
    <<115,103,58,110,97,109,101,58,100,101,102,97,117,108,116>>

\* tag:Name:web1
SelTagName ==
    <<116,97,103,58,78,97,109,101,58,119,101,98,49>>

(***************************************************************************)
(* C13. For the identity .../123456789012/us-east-1/i-0abcd1234 and an     *)
(* inventory returning one instance with tag Name=web1, security group     *)
(* (sg-1, default) and an instance profile whose lookup returns the role   *)
(* arn:aws:iam::123456789012:role/role1, Resolve maps the identity to      *)
(* exactly the four selectors iamrole:arn:aws:iam::123456789012:role/role1,*)
(* sg:id:sg-1, sg:name:default, tag:Name:web1, in this order, each of type *)
(* aws_iid, asked of the client of us-east-1 for instance i-0abcd1234.     *)
(***************************************************************************)
C13_ExampleSelectors ==
    \A p \in Procs : IsResolve(p) =>
        /\ \A id \in DOMAIN ResolvedMap(p) :
              /\ id = IdExample
              /\ ResolvedMap(p)[id].Entries =
                    << [Type |-> "aws_iid", Value |-> SelIamRole],
                       [Type |-> "aws_iid", Value |-> SelSgId],
                       [Type |-> "aws_iid", Value |-> SelSgName],
                       [Type |-> "aws_iid", Value |-> SelTagName] >>
        /\ \A e \in Range(log[p]) : e.op = "DescribeInstances" =>
              /\ e.in.InstanceIds = << <<105,45,48,97,98,99,100,49,50,51,52>> >>
              /\ e.client.Region = <<117,115,45,101,97,115,116,45,49>>
        /\ (ret[p].done /\ ret[p].err = "" /\ req[p].BaseSpiffeIdList # <<>>) =>
              IdExample \in DOMAIN ResolvedMap(p)

\* Resolve returned the mapping of the identity
C13_Witness ==
    \E p \in Procs :
        /\ IsResolve(p) /\ ret[p].done /\ ret[p].err = ""
        /\ IdExample \in DOMAIN ResolvedMap(p)
        /\ Len(ResolvedMap(p)[IdExample].Entries) = 4

(***************************************************************************)
(* Instance profiles and roles whose ARN is there but empty.               *)
(***************************************************************************)
\* aws.String("")
EmptyArn == <<>>

\* an instance whose instance profile has the empty ARN
InstEmptyProfileArn ==
    [Tags |-> <<TagEnvDb>>,
     SecurityGroups |-> <<GroupDefault>>,
     IamInstanceProfile |-> Profile(EmptyArn)]
\* an instance whose instance profile has no ARN
InstNilProfileArn ==
    [Tags |-> <<TagEnvDb>>,
     SecurityGroups |-> <<GroupDefault>>,
     IamInstanceProfile |-> Ptr([Arn |-> NilPtr])]

ArnBatches == SeqsUpTo({IdR1}, MaxBatch)
ArnDescribeOutputs ==
    { DescribeOk(<< <<InstEmptyProfileArn>> >>),
      DescribeOk(<< <<InstNilProfileArn>> >>),
      DescribeOk(<< <<InstProfile>> >>) }
ArnProfileOutputs ==
    { ProfileOk(<<[Arn |-> Ptr(EmptyArn)]>>),
      ProfileOk(<<[Arn |-> NilPtr]>>),
      ProfileOk(<<[Arn |-> Ptr(RoleArn)]>>) }

NextArn ==
    Step({"p1"}, ArnBatches, ArnDescribeOutputs, ArnProfileOutputs,
         ConcurrentPayloads, ConcurrentEnvs)

SpecArn == Init /\ [][NextArn]_vars

(***************************************************************************)
(* C14. GetInstanceProfile is called only for an instance profile whose    *)
(* ARN is non-empty, and no selector has the value "iamrole:": a profile   *)
(* or role whose ARN is the empty string causes no lookup and no selector. *)
(***************************************************************************)
C14_NonEmptyArnOnly ==
    \A p \in Procs : IsResolve(p) =>
        /\ \A e \in Range(log[p]) : e.op = "GetInstanceProfile" =>
              e.in.InstanceProfileName # Ptr(EmptyArn)
        /\ \A id \in DOMAIN ResolvedMap(p) :
              \A k \in DOMAIN ResolvedMap(p)[id].Entries :
                  ResolvedMap(p)[id].Entries[k].Value # <<105,97,109,114,111,108,101,58>>

\* a profile with the empty ARN was looked up, its role had the empty ARN, and
\* Resolve returned the selector iamrole: for the identity
C14_Witness ==
    \E p \in Procs :
        /\ IsResolve(p) /\ ret[p].done /\ ret[p].err = ""
        /\ \E e \in Range(log[p]) :
              /\ e.op = "GetInstanceProfile"
              /\ e.in.InstanceProfileName = Ptr(EmptyArn)
        /\ \E id \in DOMAIN ResolvedMap(p) :
              \E k \in DOMAIN ResolvedMap(p)[id].Entries :
                  ResolvedMap(p)[id].Entries[k].Value = <<105,97,109,114,111,108,101,58>>

\* the places in caller p's log of the calls of operation op made for position pos
CallsAt(p, op, pos) ==
    {k \in DOMAIN log[p] : log[p][k].op = op /\ log[p][k].pos = pos}

\* the instances with an instance profile among those DescribeInstances
\* returned for position pos, by their place in the answer
ProfiledAt(p, pos) ==
    UNION { LET instances == Instances(log[p][k].out.Reservations)
            IN  {j \in DOMAIN instances : HasInstanceProfile(instances[j])} :
            k \in {x \in CallsAt(p, "DescribeInstances", pos) : ~log[p][x].pending} }

(***************************************************************************)
(* C15. Resolve never retries: within one Resolve call an identity of the  *)
(* batch causes at most one DescribeInstances call, and only if it parses; *)
(* the GetInstanceProfile calls for it are no more than the instances      *)
(* returned with an instance profile; and a remote call that failed is the *)
(* last remote call of the Resolve, which has returned its error.          *)
(***************************************************************************)
C15_NoRetry ==
    \A p \in Procs : IsResolve(p) =>
        /\ \A pos \in DOMAIN req[p].BaseSpiffeIdList :
              /\ Cardinality(CallsAt(p, "DescribeInstances", pos)) <= 1
              /\ CallsAt(p, "DescribeInstances", pos) # {}
                    => Parses(req[p].BaseSpiffeIdList[pos])
              /\ Cardinality(CallsAt(p, "GetInstanceProfile", pos))
                    <= Cardinality(ProfiledAt(p, pos))
        /\ \A k \in DOMAIN log[p] :
              (IsRemote(log[p][k]) /\ Failed(log[p][k])) =>
                 /\ k = Len(log[p])
                 /\ ret[p].done
                 /\ ret[p].err # ""

\* the profile lookup of the second identity failed after the first identity
\* was resolved, and Resolve returned
C15_Witness ==
    \E p \in Procs :
        /\ IsResolve(p) /\ ret[p].done /\ ret[p].err # ""
        /\ CallsAt(p, "DescribeInstances", 1) # {}
        /\ CallsAt(p, "GetInstanceProfile", 2) # {}
        /\ Failed(log[p][Len(log[p])])
        /\ log[p][Len(log[p])].op = "GetInstanceProfile"

(***************************************************************************)
(* Identities of every shape, for parseAgentID.                            *)
(***************************************************************************)
HttpScheme == <<104,116,116,112,58,47,47>>             \* http://
AwsIid == <<97,119,115,95,105,105,100>>                \* aws_iid
GcpIit == <<103,99,112,95,105,105,116>>                \* gcp_iit

\* the segments joined by slashes
RECURSIVE JoinSegments(_)
JoinSegments(segs) ==
    IF segs = <<>> THEN <<>>
    ELSE IF Len(segs) = 1 THEN segs[1]
    ELSE segs[1] \o <<47>> \o JoinSegments(Tail(segs))

\* <scheme>d/spire/agent/<resolver>/<segment>/.../<segment>
AgentIDOf(form) ==
    form.scheme \o <<100>> \o AgentPrefix \o form.resolver \o <<47>>
        \o JoinSegments(form.segs)

\* up to MaxSegments segments, the i-th one empty or the i-th letter (a, b, ..)
SegmentLists ==
    UNION { {[i \in 1..k |-> IF i \in S THEN <<96 + i>> ELSE <<>>] : S \in SUBSET (1..k)} :
            k \in 0..MaxSegments }

\* a scheme, a resolver name and the segments
AgentIDForms ==
    [scheme : {SpiffeScheme, HttpScheme},
     resolver : {AwsIid, GcpIit},
     segs : SegmentLists]

ParseBatches == {<<AgentIDOf(form)>> : form \in AgentIDForms}

NextParse ==
    Step({"p1"}, ParseBatches, ConcurrentDescribeOutputs, ConcurrentProfileOutputs,
         ConcurrentPayloads, ConcurrentEnvs)

SpecParse == Init /\ [][NextParse]_vars

(***************************************************************************)
(* C16. parseAgentID accepts an identity exactly when it is an agent       *)
(* SPIFFE ID whose path is /spire/agent/aws_iid/ followed by three         *)
(* non-empty segments without a slash, and returns them as account id,     *)
(* region and instance id; an agent SPIFFE ID of any other shape (fewer or *)
(* more segments, an empty segment, another resolver's name) is "malformed *)
(* agent id", and what is no agent SPIFFE ID is "unable to parse agent     *)
(* id". Resolve looks up the client of that region for an accepted         *)
(* identity and passes over a rejected one.                                *)
(***************************************************************************)
C16_ParseAgentID ==
    \A p \in Procs : IsResolve(p) =>
        \A form \in AgentIDForms :
            form.scheme = SubSeq(req[p].BaseSpiffeIdList[1], 1, Len(form.scheme)) =>
            (AgentIDOf(form) = req[p].BaseSpiffeIdList[1] =>
                LET a == parseAgentID(AgentIDOf(form))
                    agent == form.scheme = SpiffeScheme
                    shaped == /\ form.resolver = AwsIid
                              /\ Len(form.segs) = 3
                              /\ \A i \in 1..3 : form.segs[i] # <<>>
                IN  /\ a.err = "" <=> (agent /\ shaped)
                    /\ (agent /\ shaped) =>
                          /\ a.accountID = form.segs[1]
                          /\ a.region = form.segs[2]
                          /\ a.instanceId = form.segs[3]
                    /\ (agent /\ ~shaped) => a.err = "malformed agent id"
                    /\ ~agent => a.err = "unable to parse agent id"
                    /\ \A e \in Range(log[p]) :
                          /\ agent /\ shaped
                          /\ IsLookup(e) => e.region = form.segs[2]
                          /\ e.op = "DescribeInstances"
                                => e.in.InstanceIds = <<form.segs[3]>>
                    /\ (ret[p].done /\ ~(agent /\ shaped)) =>
                          /\ ret[p].err = ""
                          /\ ResolvedMap(p) = <<>>)

\* Resolve passed over an identity with a fourth segment, and one with an
\* empty region
C16_Witness ==
    \E p \in Procs :
        /\ IsResolve(p) /\ ret[p].done /\ ret[p].err = "" /\ log[p] = <<>>
        /\ req[p].BaseSpiffeIdList[1] \in
              { AgentIDOf([scheme |-> SpiffeScheme, resolver |-> AwsIid,
                           segs |-> << <<97>>, <<98>>, <<99>>, <<100>> >>]),
                AgentIDOf([scheme |-> SpiffeScheme, resolver |-> AwsIid,
                           segs |-> << <<97>>, <<>>, <<99>> >>]) }

(***************************************************************************)
(* Concurrent callers, with the two assignments of Configure as two steps. *)
(***************************************************************************)
CacheBatches == {<<IdR1>>, <<IdR2>>, <<IdR1, IdR1>>}

NextCache ==
    \E p \in Procs :
        \/ \E ids \in CacheBatches : Resolve(p, ids)
        \/ ResolveNext(p)
        \/ getRegionClientRLock(p)
        \/ getRegionClientRead(p)
        \/ getRegionClientLock(p)
        \/ \E hookOk \in BOOLEAN : getRegionClientCreate(p, hookOk)
        \/ \E out \in ConcurrentDescribeOutputs : DescribeInstancesReturn(p, out)
        \/ \E out \in ConcurrentProfileOutputs : GetInstanceProfileReturn(p, out)
        \/ \E payload \in ConcurrentPayloads, env \in ConcurrentEnvs :
               Configure(p, payload, env)
        \/ ConfigureLock(p)
        \/ ConfigureConf(p)
        \/ ConfigureClients(p)

SpecCache == Init /\ [][NextCache]_vars

\* every client of the cache was constructed, successfully, from the active
\* configuration for the region it is cached under
CacheOfActiveConf ==
    \A r \in DOMAIN clients :
        /\ clients[r].id \in DOMAIN made
        /\ made[clients[r].id] = [epoch |-> conf.epoch, region |-> r, ok |-> TRUE]
        /\ clients[r].epoch = conf.epoch
        /\ clients[r].Credentials = conf.Credentials
        /\ clients[r].Region = r

(***************************************************************************)
(* C17. Whatever the interleaving of Configure and getRegionClient calls,  *)
(* every client in the cache was fully constructed from the active         *)
(* configuration with the region it is cached under, except between the    *)
(* two assignments of a Configure, when that Configure holds the write     *)
(* lock and no caller holds the read lock or stands in getRegionClient's   *)
(* critical section: no caller can see a new configuration beside a cache  *)
(* of the previous one.                                                    *)
(***************************************************************************)
C17_CacheMatchesConf ==
    \/ CacheOfActiveConf
    \/ \E p \in Procs :
          /\ pc[p] = "cfgClients"
          /\ mu = [readers |-> {}, writer |-> {p}]
          /\ \A q \in Procs \ {p} :
                pc[q] \notin {"rcheck", "wcheck", "cfgSet", "cfgClients"}

\* a Configure stands between its two assignments, the cache still holding a
\* client of the configuration it replaces, while the other caller waits for
\* the lock
C17_Witness ==
    \E p, q \in Procs :
        /\ pc[p] = "cfgClients"
        /\ DOMAIN clients # {}
        /\ ~CacheOfActiveConf
        /\ pc[q] \in {"rlock", "wlock", "cfgLock"}

(***************************************************************************)
(* Concurrent callers, with every kind of payload Configure rejects.       *)
(***************************************************************************)
RejectBatches == {<<IdR1>>, <<IdR1, IdR1>>}
RejectPayloads ==
    { Payload("id", "secret"), BadPayload, Payload("id", ""),
      Payload("", "secret"), Payload("", "") }

NextReject ==
    Step(Procs, RejectBatches, ConcurrentDescribeOutputs, ConcurrentProfileOutputs,
         RejectPayloads, ConcurrentEnvs)

SpecReject == Init /\ [][NextReject]_vars

\* caller p's Configure returns an error in this step
ConfigureFails(p) ==
    /\ pc[p] = "idle"
    /\ ncalls' = ncalls + 1
    /\ req'[p].op = "Configure"
    /\ ret'[p].done
    /\ ret'[p].err # ""

(***************************************************************************)
(* C18. A Configure that returns an error (payload that does not decode,   *)
(* missing access key id, secret access key or both) changes neither the   *)
(* configuration nor the cache nor the lock: what getRegionClient finds    *)
(* for a region is the same after it as before, and an unconfigured plugin *)
(* stays unconfigured. The configuration changes only in the step in which *)
(* a Configure succeeds.                                                   *)
(***************************************************************************)
C18_FailedConfigureKeepsState ==
    [][ /\ \A p \in Procs : ConfigureFails(p) =>
              /\ conf' = conf
              /\ clients' = clients
              /\ mu' = mu
              /\ ret'[p].resp = NilPtr
              /\ \A r \in {<<114,49>>, <<114,50>>} : Lookup(r)' = Lookup(r)
              /\ NotConfigured => NotConfigured'
        /\ conf.epoch' # conf.epoch =>
              \E p \in Procs : /\ pc[p] = "cfgSet"
                               /\ ret'[p].done
                               /\ ret'[p].err = ""
      ]_vars

\* Configure was refused for a payload that does not decode while the cache
\* held a client of the active configuration
C18_Witness ==
    \E p \in Procs :
        /\ IsConfigure(p) /\ ret[p].done
        /\ ret[p].err = "aws-iid: unable to decode configuration"
        /\ conf # NilConf
        /\ DOMAIN clients # {}

\* caller p goes through the critical section of getRegionClient in this
\* step, finding no client for its region and the plugin configured
MissesCache(p) ==
    /\ pc[p] = "wcheck"
    /\ pc'[p] # "wcheck"
    /\ frame[p].region \notin DOMAIN clients
    /\ ~NotConfigured

(***************************************************************************)
(* C19. A getRegionClient call that finds no client for its region calls   *)
(* the newClient hook, whatever earlier calls of the hook gave. When the   *)
(* hook fails, the error is returned, to the caller of Resolve too, the    *)
(* cache is exactly as before and the lock is released; when it succeeds,  *)
(* the one new entry is added and the others are unchanged. A failure is   *)
(* therefore not remembered: the next call for the region calls the hook   *)
(* again.                                                                  *)
(***************************************************************************)
C19_HookFailureNotCached ==
    [][ \A p \in Procs : MissesCache(p) =>
            /\ Len(made') = Len(made) + 1
            /\ made'[Len(made')].region = frame[p].region
            /\ made'[Len(made')].epoch = conf.epoch
            /\ p \notin mu'.writer
            /\ ~made'[Len(made')].ok =>
                  /\ clients' = clients
                  /\ ret'[p].done
                  /\ ret'[p].err = "aws-iid: new client failed"
                  /\ ret'[p].resp = NilPtr
            /\ made'[Len(made')].ok =>
                  /\ DOMAIN clients' = DOMAIN clients \cup {frame[p].region}
                  /\ \A r \in DOMAIN clients : clients'[r] = clients[r]
      ]_vars

\* the hook failed for a region and was called again for it under the same
\* configuration, and the cache holds a client of the other region
C19_Witness ==
    /\ \E i, j \in DOMAIN made :
          /\ i < j
          /\ ~made[i].ok
          /\ made[j].region = made[i].region
          /\ made[j].epoch = made[i].epoch
    /\ \E i \in DOMAIN made : ~made[i].ok /\ DOMAIN clients \ {made[i].region} # {}

(***************************************************************************)
(* Concurrent callers under fair scheduling: a caller that can take its    *)
(* next step on the lock, or inside a critical section, eventually takes   *)
(* it. Nothing is assumed of the remote calls, which need not return.      *)
(***************************************************************************)
FairBatches == {<<IdR1>>, <<IdR2>>}

NextFair ==
    Step(Procs, FairBatches, ConcurrentDescribeOutputs, ConcurrentProfileOutputs,
         ConcurrentPayloads, ConcurrentEnvs)

\* the steps of caller p on p.mu and under it
LockSteps(p) ==
    \/ getRegionClientRLock(p)
    \/ getRegionClientRead(p)
    \/ getRegionClientLock(p)
    \/ \E hookOk \in BOOLEAN : getRegionClientCreate(p, hookOk)
    \/ ConfigureLock(p)
    \/ ConfigureSet(p)

SpecFair ==
    /\ Init
    /\ [][NextFair]_vars
    /\ \A p \in Procs : WF_vars(LockSteps(p))

InGetRegionClient(p) == pc[p] \in {"rlock", "rcheck", "wlock", "wcheck"}
InConfigure(p) == pc[p] \in {"cfgLock", "cfgSet"}

(***************************************************************************)
(* C20. getRegionClient and Configure cannot deadlock: a caller waiting    *)
(* for the write lock does not hold the read lock, a caller outside the    *)
(* critical sections holds no lock, and under fair scheduling every        *)
(* getRegionClient call and every Configure call returns, with callers     *)
(* running concurrently and remote calls of others still in flight.        *)
(***************************************************************************)
C20_CallsReturn ==
    /\ [](\A p \in Procs :
             /\ pc[p] \in {"wlock", "cfgLock"} => p \notin mu.readers
             /\ pc[p] \notin {"rcheck", "wcheck", "cfgSet"}
                   => p \notin mu.readers /\ p \notin mu.writer)
    /\ \A p \in Procs : InGetRegionClient(p) ~> ~InGetRegionClient(p)
    /\ \A p \in Procs : InConfigure(p) ~> (pc[p] = "idle" /\ ret[p].done)

\* a Configure and a getRegionClient call wait for the write lock at the same
\* time
C20_Witness ==
    \E p, q \in Procs :
        /\ pc[p] = "cfgLock"
        /\ pc[q] = "wlock"
        /\ mu = [readers |-> {}, writer |-> {}]

====
